---- MODULE Spec2Model ----
(***************************************************************************)
(* Model of src/main.ts: an in-memory todo list (todos, editingId), the    *)
(* list rendered from it, and the click / keydown / fetch handlers.        *)
(*                                                                         *)
(* A Todo is a record whose optional fields (completedTime, modifiedTime)  *)
(* are present or absent in its DOMAIN, as in the interface of the source. *)
(* A text is a sequence of one-character strings, so that trim() can be    *)
(* computed.  Date.now() is the variable now (milliseconds); the string    *)
(* toLocaleString() produces has a resolution of one second.               *)
(***************************************************************************)
EXTENDS Integers, Sequences, FiniteSets, TLC

\* ------------------------------------------------------------------ bounds
\* The add handler is only explored while the list is shorter than this.
MaxTodos == 2
\* The responses of the seed request that are explored have at most this
\* many records (the request asks for FetchLimit of them).
MaxSeed == 1
\* First and last value of the millisecond clock that are explored; the
\* first is larger than any id the endpoint serves, as Date.now() is.
ClockStart == 4
MaxClock == 5
\* Milliseconds per second of the scaled clock (1000 in a browser).
MsPerSec == 5

\* ------------------------------------------------------- program constants
\* `_limit=3` of the seed request.
FetchLimit == 3
\* editingId = null: no record is being edited (ids are positive numbers).
NoEdit == 0

\* ----------------------------------------------------------------- state
VARIABLES
    todos,       \* let todos: Todo[]
    editingId,   \* let editingId: number | null
    inputValue,  \* todoInput.value
    rendered,    \* the children of todoListElement
    fetchState,  \* "pending", "done" or "failed"
    now,         \* the value Date.now() returned last
    last         \* history: the handler that ran last, and its inputs

\* ------------------------------------------------------------------- texts
Whitespace == {" "}

\* The texts a user leaves in the add input before clicking add, and in an
\* edit input before clicking save: empty, whitespace only, and one text
\* that is not blank (with a double quote in it in the add input, with
\* leading whitespace in the edit input).
AddTexts == { <<>>, <<" ">>, <<"A", "\"">> }

EditTexts == { <<>>, <<" ">>, <<" ", "B">> }

RECURSIVE TrimStart(_)
TrimStart(s) ==
    IF s # <<>> /\ Head(s) \in Whitespace THEN TrimStart(Tail(s)) ELSE s

RECURSIVE TrimEnd(_)
TrimEnd(s) ==
    IF s # <<>> /\ s[Len(s)] \in Whitespace
    THEN TrimEnd(SubSeq(s, 1, Len(s) - 1))
    ELSE s

\* String.prototype.trim
Trim(s) == TrimEnd(TrimStart(s))

\* Mutant: the text is compared with '' without trimming it.
IsBlank_EmptyOnly(s) == s = <<>>

\* `!text.trim()`: the empty string is the only falsy string
IsBlank(s) == Trim(s) = <<>>

\* ------------------------------------------------------------------- time
\* Date.prototype.toLocaleString: date and time down to the second.
ToLocaleString(ms) == <<"locale", ms \div MsPerSec>>

\* ---------------------------------------------------------------- records
Put(r, k, v) == [f \in (DOMAIN r) \cup {k} |-> IF f = k THEN v ELSE r[f]]

\* `delete r.k`
Del(r, k) == [f \in (DOMAIN r) \ {k} |-> r[f]]

Has(r, k) == k \in DOMAIN r

\* The object literal of the add handler.
NewTodo(text, ms) ==
    [id |-> ms, title |-> text, completed |-> FALSE,
     modifiedTime |-> ToLocaleString(ms)]

\* Array.prototype.find on the id: the index of the first match, 0 if none.
FindIndex(ts, id) ==
    IF \E i \in 1..Len(ts) : ts[i].id = id
    THEN CHOOSE i \in 1..Len(ts) :
            /\ ts[i].id = id
            /\ \A j \in 1..(i - 1) : ts[j].id # id
    ELSE 0

\* The indices that todos.filter(todo => todo.id !== id) keeps.
RECURSIVE KeptIndices(_, _, _)
KeptIndices(ts, id, i) ==
    IF i > Len(ts) THEN <<>>
    ELSE IF ts[i].id # id THEN <<i>> \o KeptIndices(ts, id, i + 1)
    ELSE KeptIndices(ts, id, i + 1)

\* todos.filter(todo => todo.id !== idToDelete)
DeleteTodo(ts, id) ==
    LET keep == KeptIndices(ts, id, 1)
    IN  [k \in 1..Len(keep) |-> ts[keep[k]]]

\* Mutant: todos.unshift(newTodo)
AddTodo_Unshift(ts, text, ms) == <<NewTodo(text, ms)>> \o ts

\* todos.push(newTodo)
AddTodo(ts, text, ms) == Append(ts, NewTodo(text, ms))

\* Mutant: the save keeps the completion state of the record.
SaveTodo_KeepsCompletion(ts, id, newText, ms) ==
    LET k == FindIndex(ts, id)
    IN  IF k # 0 /\ ~IsBlank(newText)
        THEN [ts EXCEPT ![k] =
                Put(Put(@, "title", newText), "modifiedTime", ToLocaleString(ms))]
        ELSE ts

\* Mutant: the save resets completed but leaves completedTime in place.
SaveTodo_KeepsCompletedTime(ts, id, newText, ms) ==
    LET k == FindIndex(ts, id)
    IN  IF k # 0 /\ ~IsBlank(newText)
        THEN [ts EXCEPT ![k] =
                Put(Put(Put(@, "title", newText), "completed", FALSE),
                    "modifiedTime", ToLocaleString(ms))]
        ELSE ts

\* Mutant: the save does not test the new text.
SaveTodo_IgnoresBlank(ts, id, newText, ms) ==
    LET k == FindIndex(ts, id)
    IN  IF k # 0
        THEN [ts EXCEPT ![k] =
                Put(Put(Del(Put(@, "title", newText), "completedTime"),
                        "completed", FALSE),
                    "modifiedTime", ToLocaleString(ms))]
        ELSE ts

\* Mutant: the edited record is taken out of the list and pushed again.
SaveTodo_MovesToEnd(ts, id, newText, ms) ==
    LET k == FindIndex(ts, id)
    IN  IF k # 0 /\ ~IsBlank(newText)
        THEN Append([i \in 1..(Len(ts) - 1) |-> IF i < k THEN ts[i] ELSE ts[i + 1]],
                    Put(Put(Del(Put(ts[k], "title", newText), "completedTime"),
                            "completed", FALSE),
                        "modifiedTime", ToLocaleString(ms)))
        ELSE ts

\* Mutant: a blank save keeps the title but still voids the completion.
SaveTodo_ResetsOnBlank(ts, id, newText, ms) ==
    LET k == FindIndex(ts, id)
    IN  IF k = 0 THEN ts
        ELSE IF ~IsBlank(newText)
        THEN [ts EXCEPT ![k] =
                Put(Put(Del(Put(@, "title", newText), "completedTime"),
                        "completed", FALSE),
                    "modifiedTime", ToLocaleString(ms))]
        ELSE [ts EXCEPT ![k] = Put(Del(@, "completedTime"), "completed", FALSE)]

\* The update of the save handler: `if (todo && newText.trim()) { ... }`
SaveTodo(ts, id, newText, ms) ==
    LET k == FindIndex(ts, id)
    IN  IF k # 0 /\ ~IsBlank(newText)
        THEN [ts EXCEPT ![k] =
                Put(Put(Del(Put(@, "title", newText), "completedTime"),
                        "completed", FALSE),
                    "modifiedTime", ToLocaleString(ms))]
        ELSE ts

\* Mutant: the complete handler has no early return.
AlreadyCompleted_Never(ts, id) == FALSE

\* `if (todo && todo.completed) return;`
AlreadyCompleted(ts, id) ==
    LET k == FindIndex(ts, id)
    IN  k # 0 /\ ts[k].completed

\* Mutant: completing a record also stamps its modifiedTime.
CompleteTodo_TouchesModified(ts, id, ms) ==
    LET k == FindIndex(ts, id)
    IN  IF k # 0
        THEN [ts EXCEPT ![k] =
                Put(Put(Put(@, "completed", TRUE),
                        "completedTime", ToLocaleString(ms)),
                    "modifiedTime", ToLocaleString(ms))]
        ELSE ts

\* The update of the complete handler, after its early return:
\* `if (todo) { todo.completed = true; todo.completedTime = timeString; }`
CompleteTodo(ts, id, ms) ==
    LET k == FindIndex(ts, id)
    IN  IF k # 0
        THEN [ts EXCEPT ![k] =
                Put(Put(@, "completed", TRUE),
                    "completedTime", ToLocaleString(ms))]
        ELSE ts

\* ---------------------------------------------------------------- render
\* The data-id attribute holds the id as text; the handlers read it back
\* with Number(getAttribute('data-id')).
DataId(id) == <<"data-id", id>>

NumberOf(attr) == attr[2]

\* The value the HTML parser reads from `value="${todo.title}"`: the
\* template does not escape the title, so the attribute ends at the first
\* double quote of the title.
RECURSIVE AttrValue(_)
AttrValue(s) ==
    IF s = <<>> \/ Head(s) = "\"" THEN <<>>
    ELSE <<Head(s)>> \o AttrValue(Tail(s))

\* The todo-footer: a span per timestamp that is present.
Footer(todo) ==
    [modified  |-> IF Has(todo, "modifiedTime") THEN <<todo.modifiedTime>> ELSE <<>>,
     completed |-> IF Has(todo, "completedTime") THEN <<todo.completedTime>> ELSE <<>>]

\* One <li>: the edit form for the record the marker selects, the title
\* and the delete / change / complete buttons for every other record.
\* listeners counts the click listeners of each button of the node: a
\* button that innerHTML has just created has none.
RenderNode(todo, marker) ==
    IF todo.id = marker
    THEN [mode |-> "edit", class |-> todo.completed, value |-> AttrValue(todo.title),
          dataId |-> DataId(todo.id), footer |-> Footer(todo),
          listeners |-> [save |-> 0, cancel |-> 0]]
    ELSE [mode |-> "view", class |-> todo.completed, text |-> todo.title,
          dataId |-> DataId(todo.id),
          label |-> IF todo.completed THEN "completed" ELSE "complete",
          footer |-> Footer(todo),
          listeners |-> [delete |-> 0, change |-> 0, complete |-> 0]]

\* bindEvents: querySelectorAll finds every button of the list, and
\* addEventListener gives each of them one more click listener.
BindEvents(nodes) ==
    [i \in 1..Len(nodes) |->
        [nodes[i] EXCEPT !.listeners = [c \in DOMAIN @ |-> @[c] + 1]]]

\* Mutant: the list is not emptied (no `innerHTML = ''`), so the nodes of
\* the render before stay in it and are bound again.
RenderTodos_KeepsOldNodes(ts, marker) ==
    BindEvents(rendered \o [i \in 1..Len(ts) |-> RenderNode(ts[i], marker)])

\* renderTodos: the list is emptied and rebuilt, one node per record, and
\* bindEvents runs on the result.
RenderTodos(ts, marker) ==
    BindEvents([i \in 1..Len(ts) |-> RenderNode(ts[i], marker)])

\* ---------------------------------------------------------------- fetch
\* A record as the endpoint serves it: id, title, completed, and neither
\* of the optional timestamps.  The ids are 1, 2, ... in this order.
SeedTodo(i, done) ==
    [id |-> i, title |-> <<"s">>, completed |-> done]

\* The lengths of the arrays the request can resolve to.
SeedLengths == { n \in 0..FetchLimit : n <= MaxSeed }

\* The arrays the request can resolve to: at most FetchLimit seed records,
\* each completed or not.
FetchResponses ==
    UNION { { [i \in 1..n |-> SeedTodo(i, flags[i])] : flags \in [1..n -> BOOLEAN] }
            : n \in SeedLengths }

\* ------------------------------------------------------------- handlers
vars == <<todos, editingId, inputValue, rendered, fetchState, now, last>>

Event(op, id, text) == [op |-> op, id |-> id, text |-> text]

Init ==
    /\ todos = <<>>
    /\ editingId = NoEdit
    /\ inputValue = <<>>
    /\ rendered = <<>>
    /\ fetchState = "pending"
    /\ now = ClockStart
    /\ last = Event("init", 0, <<>>)

\* The values Date.now() can return when a handler runs: the clock never
\* runs backwards, and it need not have advanced since it was last read.
ClockReadings == now..MaxClock

\* The user edits the text of the add input.
TypeInput(text) ==
    /\ text # inputValue
    /\ inputValue' = text
    /\ last' = Event("type", 0, <<>>)
    /\ UNCHANGED <<todos, editingId, rendered, fetchState, now>>

\* The click handler of the add button.  The event records the text that
\* was in the input when the handler ran.
AddClick ==
    /\ Len(todos) < MaxTodos
    /\ last' = Event("add", 0, inputValue)
    /\ IF IsBlank(inputValue)
       THEN UNCHANGED <<todos, editingId, inputValue, rendered, now>>
       ELSE \E ms \in ClockReadings :
            /\ now' = ms
            /\ todos' = AddTodo(todos, inputValue, ms)
            /\ rendered' = RenderTodos(todos', editingId)
            /\ inputValue' = <<>>
            /\ UNCHANGED editingId
    /\ UNCHANGED fetchState

\* The keydown handler of the add input: `if (e.key === 'Enter') addBtn.click()`;
\* any other key leaves the store alone (the typing itself is TypeInput).
Keydown(key) ==
    IF key = "Enter"
    THEN AddClick
    ELSE UNCHANGED vars

\* Mutant: the edit form has a delete button too.
DeleteClick_AnyNode(i) ==
    /\ i \in DOMAIN rendered
    /\ LET idToDelete == NumberOf(rendered[i].dataId)
       IN  /\ todos' = DeleteTodo(todos, idToDelete)
           /\ rendered' = RenderTodos(todos', editingId)
           /\ last' = Event("delete", idToDelete, <<>>)
    /\ UNCHANGED <<editingId, inputValue, fetchState, now>>

\* The click handler of the delete button of node i.
DeleteClick(i) ==
    /\ i \in DOMAIN rendered
    /\ rendered[i].mode = "view"
    /\ rendered[i].listeners.delete > 0
    /\ LET idToDelete == NumberOf(rendered[i].dataId)
       IN  /\ todos' = DeleteTodo(todos, idToDelete)
           /\ rendered' = RenderTodos(todos', editingId)
           /\ last' = Event("delete", idToDelete, <<>>)
    /\ UNCHANGED <<editingId, inputValue, fetchState, now>>

\* The event of a change click also records the marker it overwrites.
ChangeEvent(id) == [op |-> "change", id |-> id, text |-> <<>>, was |-> editingId]

\* Mutant: the change handler also stamps the record as modified.
ChangeClick_Stamps(i) ==
    /\ i \in DOMAIN rendered
    /\ rendered[i].mode = "view"
    /\ rendered[i].listeners.change > 0
    /\ LET id == NumberOf(rendered[i].dataId)
           k == FindIndex(todos, id)
       IN  /\ editingId' = id
           /\ todos' = [todos EXCEPT ![k] = Put(@, "modifiedTime", ToLocaleString(now))]
           /\ rendered' = RenderTodos(todos', editingId')
           /\ last' = ChangeEvent(id)
    /\ UNCHANGED <<inputValue, fetchState, now>>

\* The click handler of the change button of node i.
ChangeClick(i) ==
    /\ i \in DOMAIN rendered
    /\ rendered[i].mode = "view"
    /\ rendered[i].listeners.change > 0
    /\ LET id == NumberOf(rendered[i].dataId)
       IN  /\ editingId' = id
           /\ rendered' = RenderTodos(todos, editingId')
           /\ last' = ChangeEvent(id)
    /\ UNCHANGED <<todos, inputValue, fetchState, now>>

\* Mutant: a save with a blank text returns before it leaves edit mode.
SaveClick_StaysOnBlank(i, newText) ==
    /\ i \in DOMAIN rendered
    /\ rendered[i].mode = "edit"
    /\ rendered[i].listeners.save > 0
    /\ LET id == NumberOf(rendered[i].dataId)
           k == FindIndex(todos, id)
       IN  /\ IF k # 0 /\ ~IsBlank(newText)
              THEN \E ms \in ClockReadings :
                      /\ now' = ms
                      /\ todos' = SaveTodo(todos, id, newText, ms)
                      /\ editingId' = NoEdit
              ELSE UNCHANGED <<todos, now, editingId>>
           /\ rendered' = RenderTodos(todos', editingId')
           /\ last' = Event("save", id, newText)
    /\ UNCHANGED <<inputValue, fetchState>>

\* The click handler of the save button of node i, with newText in its input.
SaveClick(i, newText) ==
    /\ i \in DOMAIN rendered
    /\ rendered[i].mode = "edit"
    /\ rendered[i].listeners.save > 0
    /\ LET id == NumberOf(rendered[i].dataId)
           k == FindIndex(todos, id)
       IN  /\ IF k # 0 /\ ~IsBlank(newText)
              THEN \E ms \in ClockReadings :
                      /\ now' = ms
                      /\ todos' = SaveTodo(todos, id, newText, ms)
              ELSE /\ todos' = SaveTodo(todos, id, newText, now)
                   /\ UNCHANGED now
           /\ editingId' = NoEdit
           /\ rendered' = RenderTodos(todos', editingId')
           /\ last' = Event("save", id, newText)
    /\ UNCHANGED <<inputValue, fetchState>>

\* The click handler of the cancel button of node i.
CancelClick(i) ==
    /\ i \in DOMAIN rendered
    /\ rendered[i].mode = "edit"
    /\ rendered[i].listeners.cancel > 0
    /\ editingId' = NoEdit
    /\ rendered' = RenderTodos(todos, editingId')
    /\ last' = Event("cancel", 0, <<>>)
    /\ UNCHANGED <<todos, inputValue, fetchState, now>>

\* The click handler of the complete button of node i.
CompleteClick(i) ==
    /\ i \in DOMAIN rendered
    /\ rendered[i].mode = "view"
    /\ rendered[i].listeners.complete > 0
    /\ LET idToComplete == NumberOf(rendered[i].dataId)
           k == FindIndex(todos, idToComplete)
       IN  /\ last' = Event("complete", idToComplete, <<>>)
           /\ IF AlreadyCompleted(todos, idToComplete)
              THEN UNCHANGED <<todos, rendered, now>>
              ELSE \E ms \in ClockReadings :
                      /\ now' = ms
                      /\ todos' = CompleteTodo(todos, idToComplete, ms)
                      /\ rendered' = IF k # 0
                                     THEN RenderTodos(todos', editingId)
                                     ELSE rendered
    /\ UNCHANGED <<editingId, inputValue, fetchState>>

\* Mutant: the fetched records are appended to the list.
FetchSuccess_Merges(data) ==
    /\ fetchState = "pending"
    /\ fetchState' = "done"
    /\ todos' = todos \o data
    /\ rendered' = RenderTodos(todos', editingId)
    /\ last' = Event("fetch", 0, <<>>)
    /\ UNCHANGED <<editingId, inputValue, now>>

\* fetchTodos after both awaits: the store is replaced and rendered.
FetchSuccess(data) ==
    /\ fetchState = "pending"
    /\ fetchState' = "done"
    /\ todos' = data
    /\ rendered' = RenderTodos(todos', editingId)
    /\ last' = Event("fetch", 0, <<>>)
    /\ UNCHANGED <<editingId, inputValue, now>>

\* Mutant: the catch block resets the store.
FetchFailure_ClearsStore ==
    /\ fetchState = "pending"
    /\ fetchState' = "failed"
    /\ todos' = <<>>
    /\ editingId' = NoEdit
    /\ rendered' = RenderTodos(todos', editingId')
    /\ last' = Event("fetchError", 0, <<>>)
    /\ UNCHANGED <<inputValue, now>>

\* fetchTodos when fetch() or json() rejects: the catch block logs.
FetchFailure ==
    /\ fetchState = "pending"
    /\ fetchState' = "failed"
    /\ last' = Event("fetchError", 0, <<>>)
    /\ UNCHANGED <<todos, editingId, inputValue, rendered, now>>

\* The positions a rendered node can have.
Nodes == 1..(MaxTodos + FetchLimit)

Next ==
    \/ \E text \in AddTexts : TypeInput(text)
    \/ AddClick
    \/ \E key \in {"Enter", "a"} : Keydown(key)
    \/ \E i \in Nodes : DeleteClick(i)
    \/ \E i \in Nodes : ChangeClick(i)
    \/ \E i \in Nodes, newText \in EditTexts : SaveClick(i, newText)
    \/ \E i \in Nodes : CancelClick(i)
    \/ \E i \in Nodes : CompleteClick(i)
    \/ \E data \in FetchResponses : FetchSuccess(data)
    \/ FetchFailure

Spec == Init /\ [][Next]_vars

\* ================================================================ claims
\* Every step that changes the state is taken by one handler, which leaves
\* its name and inputs in last'; the formulas below read the step from it.

\* A text with nothing but whitespace in it (the empty text included).
OnlyWhitespace(s) == \A i \in 1..Len(s) : s[i] \in Whitespace

\* The positions of the records with this identifier.
Matches(ts, id) == { i \in 1..Len(ts) : ts[i].id = id }

\* The first record with this identifier: the one find() selects.
First(ts, id) == CHOOSE i \in Matches(ts, id) : \A j \in Matches(ts, id) : i <= j

\* The list without the record at position k.
RemoveAt(ts, k) ==
    [i \in 1..(Len(ts) - 1) |-> IF i < k THEN ts[i] ELSE ts[i + 1]]

SaveStep == last'.op = "save"
AddStep == last'.op = "add"
DeleteStep == last'.op = "delete"
CompleteStep == last'.op = "complete"

\* C1: a save with a text that is not blank, for the identifier of a record
\* of the store, leaves that record (the one find() selects) with the new
\* title, completed = false, no completion timestamp, the time string of
\* the save as its modified timestamp, and the editing marker at none.
C1_SaveEditUpdates ==
    [][ (SaveStep /\ ~OnlyWhitespace(last'.text) /\ Matches(todos, last'.id) # {}) =>
          LET k == First(todos, last'.id)
          IN  /\ Len(todos') = Len(todos)
              /\ todos'[k].id = last'.id
              /\ todos'[k].title = last'.text
              /\ todos'[k].completed = FALSE
              /\ ~Has(todos'[k], "completedTime")
              /\ Has(todos'[k], "modifiedTime")
              /\ todos'[k].modifiedTime = ToLocaleString(now')
              /\ editingId' = NoEdit
      ]_vars

\* C1 witness: a save with a non-blank text has just been applied to a
\* record, which now carries that title, and edit mode is over.
C1_Witness ==
    /\ last.op = "save"
    /\ ~OnlyWhitespace(last.text)
    /\ editingId = NoEdit
    /\ \E i \in 1..Len(todos) :
          /\ todos[i].id = last.id
          /\ todos[i].title = last.text
          /\ ~todos[i].completed

\* C2 as stated: a save with a blank text is a complete no-op, neither a
\* record nor the editing marker changes.
C2_BlankSaveIsNoOp ==
    [][ (SaveStep /\ OnlyWhitespace(last'.text)) =>
          (todos' = todos /\ editingId' = editingId)
      ]_vars

\* C2 as amended: a save with a blank text changes no record, and it ends
\* edit mode: the marker, which selected the saved record, becomes none.
C2_BlankSaveExitsEditMode ==
    [][ (SaveStep /\ OnlyWhitespace(last'.text)) =>
          /\ todos' = todos
          /\ editingId = last'.id
          /\ editingId' = NoEdit
      ]_vars

\* C2 witness: a blank save has just run on a record that is still in the
\* store, and no record is in edit mode.
C2_Witness ==
    /\ last.op = "save"
    /\ OnlyWhitespace(last.text)
    /\ Matches(todos, last.id) # {}
    /\ editingId = NoEdit
    /\ \A i \in 1..Len(rendered) : rendered[i].mode = "view"

\* C3: a save with a blank text leaves the edited record as it was: same
\* title, completed flag, completion timestamp and modified timestamp.
C3_BlankSaveKeepsRecord ==
    [][ (SaveStep /\ OnlyWhitespace(last'.text) /\ Matches(todos, last'.id) # {}) =>
          LET k == First(todos, last'.id)
          IN  /\ Len(todos') = Len(todos)
              /\ DOMAIN todos'[k] = DOMAIN todos[k]
              /\ \A f \in DOMAIN todos[k] : todos'[k][f] = todos[k][f]
      ]_vars

\* C3 witness: a blank save has just run on a completed record that
\* carries both timestamps, which it still carries.
C3_Witness ==
    /\ last.op = "save"
    /\ OnlyWhitespace(last.text)
    /\ \E i \in 1..Len(todos) :
          /\ todos[i].id = last.id
          /\ todos[i].completed
          /\ Has(todos[i], "completedTime")
          /\ Has(todos[i], "modifiedTime")

\* C4: an add with a text that is not blank makes the list one longer; the
\* new record is the last one, is not completed, has no completion
\* timestamp and has a modified timestamp; the records that were there are
\* unchanged.
C4_AddAppends ==
    [][ (AddStep /\ ~OnlyWhitespace(last'.text)) =>
          /\ Len(todos') = Len(todos) + 1
          /\ SubSeq(todos', 1, Len(todos)) = todos
          /\ LET r == todos'[Len(todos')]
             IN  /\ r.completed = FALSE
                 /\ ~Has(r, "completedTime")
                 /\ Has(r, "modifiedTime")
      ]_vars

\* C4 witness: a non-blank add has just appended a record to a list that
\* already held a different record.
C4_Witness ==
    /\ last.op = "add"
    /\ ~OnlyWhitespace(last.text)
    /\ Len(todos) >= 2
    /\ todos[1] # todos[Len(todos)]
    /\ todos[Len(todos)].title = last.text

\* C5: an add with an empty or whitespace-only text leaves the store as it
\* was: the same records in the same order and the same editing marker.
C5_BlankAddIsNoOp ==
    [][ (AddStep /\ OnlyWhitespace(last'.text)) =>
          (todos' = todos /\ editingId' = editingId)
      ]_vars

\* C5 witness: an add of a whitespace-only text has just run on a store
\* that holds a record in edit mode.
C5_Witness ==
    /\ last.op = "add"
    /\ last.text = <<" ">>
    /\ editingId # NoEdit
    /\ Matches(todos, editingId) # {}

\* C6 as stated: a delete removes exactly one record, the one with the
\* identifier, and keeps the others in their order; a delete of an
\* identifier no record has leaves the list as it was.
C6_DeleteRemovesExactlyOne ==
    [][ DeleteStep =>
          IF Matches(todos, last'.id) = {}
          THEN todos' = todos
          ELSE \E k \in Matches(todos, last'.id) : todos' = RemoveAt(todos, k)
      ]_vars

\* C7: completing a record that is not completed sets completed and the
\* completion timestamp (the time string of the click); completing one that
\* is completed changes nothing, its completion timestamp included.  The
\* record is the one find() selects for the identifier.
C7_CompleteOnce ==
    [][ (CompleteStep /\ Matches(todos, last'.id) # {}) =>
          LET k == First(todos, last'.id)
          IN  IF todos[k].completed
              THEN todos' = todos /\ editingId' = editingId
              ELSE /\ Len(todos') = Len(todos)
                   /\ todos'[k].completed = TRUE
                   /\ Has(todos'[k], "completedTime")
                   /\ todos'[k].completedTime = ToLocaleString(now')
                   /\ \A j \in 1..Len(todos) : j # k => todos'[j] = todos[j]
      ]_vars

\* C7 witness: complete has just been clicked on a record completed at an
\* earlier second, whose completion timestamp is still the earlier one.
C7_Witness ==
    /\ last.op = "complete"
    /\ \E i \in 1..Len(todos) :
          /\ i = First(todos, last.id)
          /\ todos[i].completed
          /\ Has(todos[i], "completedTime")
          /\ todos[i].completedTime # ToLocaleString(now)

\* C8 as stated: no two records of the list have the same identifier.
C8_UniqueIds ==
    \A i, j \in 1..Len(todos) : i # j => todos[i].id # todos[j].id

\* C9: a record carries a completion timestamp only if it is completed.
C9_CompletedTimeOnlyIfCompleted ==
    \A i \in 1..Len(todos) : Has(todos[i], "completedTime") => todos[i].completed

\* C9 witness: a save has just returned a record to not completed, without a
\* completion timestamp, next to a record that is completed and has one.
C9_Witness ==
    /\ last.op = "save"
    /\ ~OnlyWhitespace(last.text)
    /\ \E i, j \in 1..Len(todos) :
          /\ todos[i].id = last.id
          /\ ~todos[i].completed
          /\ ~Has(todos[i], "completedTime")
          /\ todos[j].completed
          /\ Has(todos[j], "completedTime")

\* A record of the new list carries a modified timestamp that no record
\* with its identifier carried before the step.
GainsModified(i) ==
    /\ Has(todos'[i], "modifiedTime")
    /\ \A j \in Matches(todos, todos'[i].id) : ~Has(todos[j], "modifiedTime")

\* The step is a save with a non-blank text for the identifier of record i.
SavedBy(i) ==
    SaveStep /\ ~OnlyWhitespace(last'.text) /\ todos'[i].id = last'.id

\* The step is the add that created record i.
AddedBy(i) ==
    AddStep /\ Len(todos') = Len(todos) + 1 /\ i = Len(todos')

\* C10 as stated: a record gets a modified timestamp from a successful save
\* only, so a record that was only added has none.
C10_ModifiedOnlyBySave ==
    [][ \A i \in 1..Len(todos') : GainsModified(i) => SavedBy(i) ]_vars

\* C10 as amended: a record gets a modified timestamp from the add that
\* creates it or from a successful save, and from nothing else: a fetched
\* record that was never edited has none.
C10_ModifiedOnlyByAddOrSave ==
    [][ \A i \in 1..Len(todos') : GainsModified(i) => (SavedBy(i) \/ AddedBy(i)) ]_vars

\* C10 witness: an add has just created a record with a modified
\* timestamp, next to a fetched record that has none.
C10_Witness ==
    /\ last.op = "add"
    /\ fetchState = "done"
    /\ \E i \in 1..Len(todos) :
          /\ todos[i].id <= FetchLimit
          /\ ~Has(todos[i], "modifiedTime")
    /\ Has(todos[Len(todos)], "modifiedTime")
    /\ todos[Len(todos)].id >= ClockStart

\* The step keeps every record at its position: it is neither the fetch,
\* which replaces the list, nor a delete, which removes records.
KeepsPositions == last'.op \notin {"fetch", "delete"}

\* C11 as stated: a record that is completed stays completed for as long as
\* it is in the list; no operation returns it to not completed.
C11_CompletedStays ==
    [][ /\ KeepsPositions =>
            \A i \in 1..Len(todos) : todos[i].completed => todos'[i].completed
        /\ DeleteStep =>
            \A k \in 1..Len(todos') : \E i \in 1..Len(todos) : todos'[k] = todos[i]
      ]_vars

\* C11 as amended: a completed record stays completed through every
\* operation but one: a save with a non-blank text returns the record it
\* edits to not completed.
C11_CompletedStaysUnlessSaved ==
    [][ /\ KeepsPositions =>
            \A i \in 1..Len(todos) :
                todos[i].completed =>
                    \/ todos'[i].completed
                    \/ /\ SaveStep
                       /\ ~OnlyWhitespace(last'.text)
                       /\ i = First(todos, last'.id)
                       /\ ~todos'[i].completed
        /\ DeleteStep =>
            \A k \in 1..Len(todos') : \E i \in 1..Len(todos) : todos'[k] = todos[i]
      ]_vars

\* C11 witness: a non-blank save has just run on one record, and another
\* record, completed earlier, is still completed.
C11_Witness ==
    /\ last.op = "save"
    /\ ~OnlyWhitespace(last.text)
    /\ \E i, j \in 1..Len(todos) :
          /\ todos[i].id = last.id
          /\ ~todos[i].completed
          /\ todos[j].id # last.id
          /\ todos[j].completed
          /\ Has(todos[j], "completedTime")

\* C12 as stated: at most one record is in edit mode: at most one record
\* of the list has the identifier the marker holds, and at most one
\* rendered node shows the edit form.
C12_AtMostOneEditing ==
    /\ Cardinality(Matches(todos, editingId)) <= 1
    /\ Cardinality({ i \in 1..Len(rendered) : rendered[i].mode = "edit" }) <= 1

\* The identifiers of a list, in its order.
IdSeq(ts) == [i \in 1..Len(ts) |-> ts[i].id]

\* a is b with some of its elements left out, the others in b's order.
RECURSIVE IsSubseq(_, _)
IsSubseq(a, b) ==
    IF a = <<>> THEN TRUE
    ELSE IF b = <<>> THEN FALSE
    ELSE IF Head(a) = Head(b) THEN IsSubseq(Tail(a), Tail(b))
    ELSE IsSubseq(a, Tail(b))

HandlersEnabled ==
    /\ Len(todos) < MaxTodos => ENABLED AddClick
    /\ \A i \in 1..Len(rendered) :
          rendered[i].mode = "view" =>
              /\ ENABLED DeleteClick(i)
              /\ ENABLED ChangeClick(i)
              /\ ENABLED CompleteClick(i)

\* C14: a failed seed fetch is caught and leaves the list, the editing
\* marker and the rendered list exactly as they were, and after it add,
\* delete, change and complete are still enabled.
C14_FetchFailureKeepsStore ==
    /\ [](fetchState = "failed" => HandlersEnabled)
    /\ [][ last'.op = "fetchError" =>
             /\ todos' = todos
             /\ editingId' = editingId
             /\ rendered' = rendered
             /\ fetchState' = "failed"
         ]_vars

\* C14 witness: the fetch has just failed while the store held a record
\* added by hand, in edit mode; the record and the marker are still there.
C14_Witness ==
    /\ last.op = "fetchError"
    /\ fetchState = "failed"
    /\ Len(todos) >= 1
    /\ editingId # NoEdit
    /\ Matches(todos, editingId) # {}

\* C15: when the seed fetch succeeds the list becomes exactly a list the
\* endpoint serves, whatever was added, edited or completed while the
\* fetch was pending; the fetch completes from pending only, and once it
\* has completed or failed it never completes again.
C15_FetchReplacesStore ==
    [][ /\ last'.op = "fetch" =>
            /\ fetchState = "pending"
            /\ fetchState' = "done"
            /\ todos' \in FetchResponses
            /\ \A i \in 1..Len(todos') : todos'[i].id < ClockStart
        /\ fetchState # "pending" => fetchState' = fetchState
      ]_vars

\* C15 witness: the fetch has just succeeded after a handler had read a
\* later clock value, that is after a record had been added by hand; the
\* list holds the seed records only.
C15_Witness ==
    /\ last.op = "fetch"
    /\ fetchState = "done"
    /\ now > ClockStart
    /\ Len(todos) >= 1
    /\ todos \in FetchResponses

\* The title a rendered node shows: the text of its span in view mode, the
\* value of its input in edit mode.
ShownTitle(node) == IF node.mode = "edit" THEN node.value ELSE node.text

\* C16 as stated: the rendered list mirrors the store: one node per record,
\* in the order of the list, showing the record's title and completed state,
\* with the edit form on exactly the records the marker selects.
C16_RenderedMirrorsStore ==
    /\ Len(rendered) = Len(todos)
    /\ \A i \in 1..Len(todos) :
          /\ NumberOf(rendered[i].dataId) = todos[i].id
          /\ ShownTitle(rendered[i]) = todos[i].title
          /\ rendered[i].class = todos[i].completed
          /\ (rendered[i].mode = "edit") <=> (todos[i].id = editingId)

\* C17: delete, change and complete run only for a record rendered in view
\* mode, save and cancel only while a record is rendered in edit mode; so
\* a delete or a complete never has the identifier the marker holds, and
\* the records in edit mode come through it unchanged.
C17_ControlsByMode ==
    [][ /\ last'.op \in {"delete", "change", "complete"} =>
            /\ last'.id # editingId
            /\ \E i \in 1..Len(rendered) :
                  /\ rendered[i].mode = "view"
                  /\ NumberOf(rendered[i].dataId) = last'.id
        /\ last'.op = "save" =>
            /\ last'.id = editingId
            /\ \E i \in 1..Len(rendered) : rendered[i].mode = "edit"
        /\ last'.op = "cancel" =>
            \E i \in 1..Len(rendered) : rendered[i].mode = "edit"
        /\ last'.op \in {"delete", "complete"} =>
            /\ Cardinality(Matches(todos', editingId)) = Cardinality(Matches(todos, editingId))
            /\ \A k \in Matches(todos', editingId) : \E i \in Matches(todos, editingId) : todos'[k] = todos[i]
      ]_vars

\* C17 witness: a delete has just removed a record while another record,
\* still in the list, is in edit mode.
C17_Witness ==
    /\ last.op = "delete"
    /\ editingId # NoEdit
    /\ Matches(todos, editingId) # {}
    /\ \E i \in 1..Len(rendered) : rendered[i].mode = "edit"

ChangeStep == last'.op = "change"
CancelStep == last'.op = "cancel"

\* C18 as stated: a change click sets the marker to the record's
\* identifier, a cancel click sets it to none, both leave the list as it
\* was, and a change click followed by a cancel click restores the store
\* exactly: the list and the marker are what they were before the two.
C18_EditRoundTripRestores ==
    [][ /\ ChangeStep => (todos' = todos /\ editingId' = last'.id)
        /\ CancelStep => (todos' = todos /\ editingId' = NoEdit)
        /\ (last.op = "change" /\ CancelStep) =>
              (todos' = todos /\ editingId' = last.was)
      ]_vars

\* C18 as amended: a change click sets the marker to the record's
\* identifier, a cancel click sets it to none, both leave the list as it
\* was; a change click followed by a cancel click restores the list, and
\* leaves the marker at none, which restores it when no record was in edit
\* mode before the change click.
C18_EditChangesOnlyMarker ==
    [][ /\ ChangeStep => (todos' = todos /\ editingId' = last'.id)
        /\ CancelStep => (todos' = todos /\ editingId' = NoEdit)
        /\ (last.op = "change" /\ CancelStep) =>
              /\ todos' = todos
              /\ editingId' = NoEdit
              /\ last.was = NoEdit => editingId' = last.was
      ]_vars

\* C18 witness: a cancel click has just ended the edit of a completed
\* record with both timestamps, which it still has.
C18_Witness ==
    /\ last.op = "cancel"
    /\ editingId = NoEdit
    /\ \E i \in 1..Len(todos) :
          /\ todos[i].completed
          /\ Has(todos[i], "completedTime")
          /\ Has(todos[i], "modifiedTime")

\* C19 as stated: the marker is none or the identifier of a record of the
\* list.
C19_MarkerNeverDangles ==
    editingId = NoEdit \/ Matches(todos, editingId) # {}

\* The buttons a node has: those of the edit form or those of a record in
\* view mode.
Controls(node) ==
    IF node.mode = "edit" THEN {"save", "cancel"} ELSE {"delete", "change", "complete"}

\* C20: after every render each button of the rendered list has exactly
\* one click listener, however many renders came before, so a click runs
\* its handler once.
C20_OneListenerPerControl ==
    \A i \in 1..Len(rendered) :
        /\ DOMAIN rendered[i].listeners = Controls(rendered[i])
        /\ \A c \in Controls(rendered[i]) : rendered[i].listeners[c] = 1

\* C20 witness: the list has been rendered again and again (an add, a
\* change and a save at least), and the buttons of a record that was there
\* all along have one listener each.
C20_Witness ==
    /\ last.op = "save"
    /\ Len(rendered) >= 1
    /\ \A c \in Controls(rendered[1]) : rendered[1].listeners[c] = 1
    /\ rendered[1].mode = "view"

====
